---- MODULE Spec2Model ----
(***************************************************************************)
(* The credential manager of the Xero Sales Day Book: token_helper.py.     *)
(*                                                                         *)
(* ensure_access_token() returns a bearer token, refreshing it against the *)
(* identity provider when the stored pair is about to expire.  The pair    *)
(* lives in st.session_state (Cloud mode) or in xero_tokens.json (local    *)
(* file mode); which one is decided by _in_cloud_mode() from the Streamlit *)
(* secrets.                                                                *)
(*                                                                         *)
(* A Python dict is a function whose DOMAIN is the set of keys present, so *)
(* d.get(k, default), d[k] (KeyError) and "k in d" are modelled as the     *)
(* code evaluates them.  Python's None is the string None below.           *)
(***************************************************************************)
EXTENDS Integers, Sequences, FiniteSets, TLC

\* ---------------------------------------------------------------- bounds
MaxCalls == 2
MaxTicks == 2
StartClock == 5000

\* ------------------------------------------------------ program constants
ExpiryGuard == 30
ExpiryBuffer == 60
DefaultExpiresIn == 1800

\* The processes that may call ensure_access_token on one machine.  Under Spec
\* process 1 runs alone and process 2 is never started (pc = "off").
Procs == {1, 2}

\* How far the clock may move in one step.
TickSteps == {1, 1800}
\* expires_in values the provider may declare.
ExpiresIns == {30, 1800}
\* HTTP statuses of the token endpoint.
Statuses == {200, 400, 500}

VARIABLES
    secrets,     \* st.secrets, a dict ({} when streamlit or its secrets are missing)
    env,         \* os.environ, restricted to the XERO_* keys read here
    file,        \* TOKENS_PATH (xero_tokens.json)
    tmp,         \* TOKENS_PATH.with_suffix(".tmp")
    ss,          \* _ss.get("xero_tokens"): the session-cached pair, {} when unset
    clock,       \* time.time()
    ticks,       \* how often the clock has moved
    issued,      \* requests the token endpoint has answered
    pc,          \* where each process stands in ensure_access_token
    now,         \* ensure_access_token's local now
    base_rt,     \* the refresh_token argument of _refresh_access_token
    new_tok,     \* ensure_access_token's local new_tok (file mode)
    result,      \* what the last call returned or raised
    calls,       \* calls made by each process
    reqs,        \* requests.post calls made by the current call
    writes,      \* writes to the store made by the current call
    pre,         \* the store as the current call found it
    raw,         \* the response the current call received
    refreshed_at, \* time.time() as read on line 92 by the current call
    fh,          \* where the file each process holds open for writing now lies
    rotated      \* the session has received a rotated refresh_token

vars == <<secrets, env, file, tmp, ss, clock, ticks, issued, pc, now,
          base_rt, new_tok, result, calls, reqs, writes, pre, raw, refreshed_at,
          fh, rotated>>

\* ------------------------------------------------------------ Python values
None == "<None>"
EmptyDict == [k \in {} |-> None]

Has(d, k) == k \in DOMAIN d
Get(d, k, default) == IF Has(d, k) THEN d[k] ELSE default
\* bool(v) for a string or None
Truthy(v) == v \notin {"", None}
\* a or b
Or(a, b) == IF Truthy(a) THEN a ELSE b

\* ------------------------------------------------------------------- files
AbsentFile == [state |-> "absent", data |-> EmptyDict]
TornFile == [state |-> "torn", data |-> EmptyDict]
JsonFile(d) == [state |-> "json", data |-> d]

\* ----------------------------------------------------------------- results
NoResult == [kind |-> "none", value |-> "", status |-> 0]
Return(v) == [kind |-> "return", value |-> v, status |-> 0]
Raise(exc, msg) == [kind |-> exc, value |-> msg, status |-> 0]
RaiseStatus(exc, msg, code) == [kind |-> exc, value |-> msg, status |-> code]
Done(res) == [pc |-> "done", result |-> res, rt |-> ""]

\* ------------------------------------------------------------ configuration
\* With st None, or st.secrets unreadable, the test is False: as with no keys.
InCloudMode ==
    Has(secrets, "XERO_CLIENT_ID") \/ Has(secrets, "XERO_REFRESH_TOKEN")

ClientId ==
    Or(IF InCloudMode THEN Get(secrets, "XERO_CLIENT_ID", None)
                      ELSE Get(env, "XERO_CLIENT_ID", None), "")

ClientSecret ==
    Or(IF InCloudMode THEN Get(secrets, "XERO_CLIENT_SECRET", None)
                      ELSE Get(env, "XERO_CLIENT_SECRET", None), "")

BaselineRefreshToken ==
    IF InCloudMode THEN Get(secrets, "XERO_REFRESH_TOKEN", "")
    ELSE LET rt == Get(env, "XERO_REFRESH_TOKEN", "") IN
         IF Truthy(rt) THEN rt
         ELSE IF file.state = "json" THEN Get(file.data, "refresh_token", "")
         ELSE ""

\* The pair the active backend holds.
Store == IF InCloudMode
         THEN (IF ss = EmptyDict THEN AbsentFile ELSE JsonFile(ss))
         ELSE file

\* ---------------------------------------------------------- the provider
NoResponse == [kind |-> "none", status |-> 0, body |-> EmptyDict]
Timeout == [kind |-> "timeout", status |-> 0, body |-> EmptyDict]
Http(code, body) == [kind |-> "http", status |-> code, body |-> body]

AccessTokenNo(i) == "A" \o ToString(i)
RefreshTokenNo(i) == "R" \o ToString(i)

Body(K, i, r, e) ==
    [k \in K |-> CASE k = "access_token" -> AccessTokenNo(i)
                  [] k = "refresh_token" -> r
                  [] k = "expires_in" -> e]

\* The JSON bodies of the i-th answer: an access_token with or without a
\* refresh_token (rotated, empty or null) and an expires_in, or a body that
\* lacks the access_token.
Bodies(i) ==
    UNION { { Body({"access_token"} \cup K, i, r, e) :
                r \in {RefreshTokenNo(i), "", None}, e \in ExpiresIns } :
            K \in SUBSET {"refresh_token", "expires_in"} }
    \cup { Body({"refresh_token", "expires_in"}, i, RefreshTokenNo(i), DefaultExpiresIn) }

Responses(i) ==
    {Timeout}
    \cup {Http(s, EmptyDict) : s \in Statuses \ {200}}
    \cup {Http(200, b) : b \in Bodies(i)}

\* Mutant of RespOk: only a server error counts as a failure.
RespOkUnlessServerError(resp) == resp.status < 500

\* requests.Response.ok
RespOk(resp) == resp.status < 400

\* ------------------------------------------------------------ refresh core
\* Mutant of RefreshStart: only the client id is checked.
RefreshStartChecksIdOnly(rt) ==
    IF ~Truthy(ClientId)
    THEN Done(Raise("RuntimeError", "Missing XERO_CLIENT_ID / XERO_CLIENT_SECRET."))
    ELSE [pc |-> "post", result |-> NoResult, rt |-> rt]

\* _refresh_access_token up to requests.post: the credentials check.
RefreshStart(rt) ==
    IF ~Truthy(ClientId) \/ ~Truthy(ClientSecret)
    THEN Done(Raise("RuntimeError", "Missing XERO_CLIENT_ID / XERO_CLIENT_SECRET."))
    ELSE [pc |-> "post", result |-> NoResult, rt |-> rt]

\* Mutant of NewTokens: the raw provider lifetime, without the safety buffer.
NewTokensNoBuffer(body, refresh_token, t) ==
    [access_token |-> body["access_token"],
     refresh_token |-> Get(body, "refresh_token", refresh_token),
     expires_at |-> t + Get(body, "expires_in", DefaultExpiresIn)]

\* Mutant of NewTokens: the old refresh_token is not kept.
NewTokensDropsOldRefreshToken(body, refresh_token, t) ==
    [access_token |-> body["access_token"],
     refresh_token |-> Get(body, "refresh_token", ""),
     expires_at |-> t + Get(body, "expires_in", DefaultExpiresIn) - ExpiryBuffer]

\* The tokens dict built from a success body.
NewTokens(body, refresh_token, t) ==
    [access_token |-> body["access_token"],
     refresh_token |-> Get(body, "refresh_token", refresh_token),
     expires_at |-> t + Get(body, "expires_in", DefaultExpiresIn) - ExpiryBuffer]

\* Mutant of RefreshResult: a timeout is swallowed and an expired stub returned.
RefreshResultSwallowsTimeout(resp, refresh_token, t) ==
    IF resp.kind = "timeout"
    THEN [ok |-> TRUE, result |-> NoResult,
          tokens |-> [access_token |-> "", refresh_token |-> refresh_token,
                      expires_at |-> t - ExpiryBuffer]]
    ELSE IF ~RespOk(resp)
    THEN [ok |-> FALSE,
          result |-> RaiseStatus("RuntimeError", "Token refresh failed", resp.status),
          tokens |-> EmptyDict]
    ELSE IF ~Has(resp.body, "access_token")
    THEN [ok |-> FALSE, result |-> Raise("KeyError", "access_token"),
          tokens |-> EmptyDict]
    ELSE [ok |-> TRUE, result |-> NoResult,
          tokens |-> NewTokens(resp.body, refresh_token, t)]

\* _refresh_access_token from the answer of requests.post on.
RefreshResult(resp, refresh_token, t) ==
    IF resp.kind = "timeout"
    THEN [ok |-> FALSE, result |-> Raise("RequestException", "timeout"),
          tokens |-> EmptyDict]
    ELSE IF ~RespOk(resp)
    THEN [ok |-> FALSE,
          result |-> RaiseStatus("RuntimeError", "Token refresh failed", resp.status),
          tokens |-> EmptyDict]
    ELSE IF ~Has(resp.body, "access_token")
    THEN [ok |-> FALSE, result |-> Raise("KeyError", "access_token"),
          tokens |-> EmptyDict]
    ELSE [ok |-> TRUE, result |-> NoResult,
          tokens |-> NewTokens(resp.body, refresh_token, t)]

\* ---------------------------------------------------------------- public API
\* Mutant of Fresh: the 60-second buffer is taken for the guard.
FreshWithBufferAsGuard(tok, t) == Get(tok, "expires_at", 0) > t + ExpiryBuffer

\* The expiry test of lines 103 and 125.
Fresh(tok, t) == Get(tok, "expires_at", 0) > t + ExpiryGuard

\* tok["access_token"]
ReturnAccessToken(tok) ==
    IF Has(tok, "access_token") THEN Done(Return(tok["access_token"]))
    ELSE Done(Raise("KeyError", "access_token"))

\* Mutant of CloudStart: an empty refresh token is not caught.
CloudStartNoBaselineCheck(tok, t) ==
    IF tok # EmptyDict /\ Fresh(tok, t) THEN ReturnAccessToken(tok)
    ELSE RefreshStart(Or(Get(tok, "refresh_token", None), BaselineRefreshToken))

\* Mutant of CloudStart: the session cache is not consulted.
CloudStartIgnoresCache(tok, t) ==
    LET rt == Or(Get(tok, "refresh_token", None), BaselineRefreshToken) IN
    IF ~Truthy(rt)
    THEN Done(Raise("FileNotFoundError", "XERO_REFRESH_TOKEN"))
    ELSE RefreshStart(rt)

\* Cloud mode, lines 100-112, up to requests.post.
CloudStart(tok, t) ==
    IF tok # EmptyDict /\ Fresh(tok, t) THEN ReturnAccessToken(tok)
    ELSE LET rt == Or(Get(tok, "refresh_token", None), BaselineRefreshToken) IN
         IF ~Truthy(rt)
         THEN Done(Raise("FileNotFoundError", "XERO_REFRESH_TOKEN"))
         ELSE RefreshStart(rt)

\* Local file mode, lines 117-128, up to requests.post.
FileStart(f, t) ==
    IF f.state = "absent" THEN Done(Raise("FileNotFoundError", "TOKENS_PATH"))
    ELSE IF f.state = "torn" THEN Done(Raise("JSONDecodeError", "TOKENS_PATH"))
    ELSE IF Fresh(f.data, t) THEN ReturnAccessToken(f.data)
    ELSE IF ~Has(f.data, "refresh_token") THEN Done(Raise("KeyError", "refresh_token"))
    ELSE RefreshStart(f.data["refresh_token"])

EnsureStart(t) == IF InCloudMode THEN CloudStart(ss, t) ELSE FileStart(file, t)

\* ------------------------------------------------------------------ actions
\* ensure_access_token is called: everything up to the return, the raise or
\* the request to the token endpoint.
CallUpTo(p, n) ==
    /\ pc[p] \in {"idle", "done", "crashed"}
    /\ calls[p] < n
    /\ LET o == EnsureStart(clock) IN
        /\ pc' = [pc EXCEPT ![p] = o.pc]
        /\ result' = [result EXCEPT ![p] = o.result]
        /\ base_rt' = [base_rt EXCEPT ![p] = o.rt]
        /\ reqs' = [reqs EXCEPT ![p] = IF o.pc = "post" THEN 1 ELSE 0]
    /\ now' = [now EXCEPT ![p] = clock]
    /\ calls' = [calls EXCEPT ![p] = @ + 1]
    /\ writes' = [writes EXCEPT ![p] = 0]
    /\ pre' = [pre EXCEPT ![p] = Store]
    /\ raw' = [raw EXCEPT ![p] = NoResponse]
    /\ refreshed_at' = [refreshed_at EXCEPT ![p] = 0]
    /\ new_tok' = [new_tok EXCEPT ![p] = EmptyDict]
    /\ UNCHANGED <<secrets, env, file, tmp, ss, clock, ticks, issued, fh, rotated>>

\* A process makes at most MaxCalls calls.
Call(p) == CallUpTo(p, MaxCalls)

\* requests.post answers or times out; the rest of _refresh_access_token, and
\* in Cloud mode the session write and the return.
Respond(p) ==
    /\ pc[p] = "post"
    /\ \E resp \in Responses(issued + 1) :
        LET o == RefreshResult(resp, base_rt[p], clock) IN
        /\ raw' = [raw EXCEPT ![p] = resp]
        /\ rotated' = (rotated \/ (/\ InCloudMode
                                    /\ o.ok
                                    /\ Truthy(Get(resp.body, "refresh_token", None))))
        /\ IF ~o.ok
           THEN /\ pc' = [pc EXCEPT ![p] = "done"]
                /\ result' = [result EXCEPT ![p] = o.result]
                /\ UNCHANGED <<ss, new_tok, writes, refreshed_at>>
           ELSE /\ refreshed_at' = [refreshed_at EXCEPT ![p] = clock]
                /\ IF InCloudMode
                   THEN /\ ss' = o.tokens
                        /\ writes' = [writes EXCEPT ![p] = @ + 1]
                        /\ pc' = [pc EXCEPT ![p] = "done"]
                        /\ result' = [result EXCEPT ![p] = Return(o.tokens["access_token"])]
                        /\ UNCHANGED new_tok
                   ELSE /\ new_tok' = [new_tok EXCEPT ![p] = o.tokens]
                        /\ pc' = [pc EXCEPT ![p] = "open_tmp"]
                        /\ UNCHANGED <<ss, writes, result>>
    /\ issued' = issued + 1
    /\ UNCHANGED <<secrets, env, file, tmp, clock, ticks, now, base_rt, calls, reqs,
                   pre, fh>>

\* Mutant of OpenTmp: the token file itself is opened for writing.
OpenTokensFileInPlace(p) ==
    /\ pc[p] = "open_tmp"
    /\ file' = TornFile
    /\ fh' = [fh EXCEPT ![p] = "path"]
    /\ pc' = [pc EXCEPT ![p] = "dump"]
    /\ writes' = [writes EXCEPT ![p] = @ + 1]
    /\ UNCHANGED <<secrets, env, tmp, ss, clock, ticks, issued, now, base_rt,
                   new_tok, result, calls, reqs, pre, raw, refreshed_at, rotated>>

\* _save_tokens_file, line 63: open(tmp, "w") creates the file, or truncates
\* the one that lies there, which another process may still hold open.
OpenTmp(p) ==
    /\ pc[p] = "open_tmp"
    /\ tmp' = TornFile
    /\ fh' = [fh EXCEPT ![p] = "tmp"]
    /\ pc' = [pc EXCEPT ![p] = "dump"]
    /\ writes' = [writes EXCEPT ![p] = @ + 1]
    /\ UNCHANGED <<secrets, env, file, ss, clock, ticks, issued, now, base_rt,
                   new_tok, result, calls, reqs, pre, raw, refreshed_at, rotated>>

\* What a file holds after text is written at offset 0 through a handle
\* opened with "w": the text, unless another handle wrote after the truncation;
\* then the new text lies over the other one, whose tail remains when it is
\* the longer of the two.
Written(cur, d) ==
    IF cur.state = "json" THEN {JsonFile(d), TornFile} ELSE {JsonFile(d)}

\* _save_tokens_file, line 64: json.dump and the close of the file.  The text
\* goes to the file the handle was opened on, wherever a rename has moved it.
Dump(p) ==
    /\ pc[p] = "dump"
    /\ CASE fh[p] = "tmp" ->
                /\ tmp' \in Written(tmp, new_tok[p])
                /\ UNCHANGED file
         [] fh[p] = "path" ->
                /\ file' \in Written(file, new_tok[p])
                /\ UNCHANGED tmp
         [] OTHER -> UNCHANGED <<file, tmp>>
    /\ fh' = [fh EXCEPT ![p] = "none"]
    /\ pc' = [pc EXCEPT ![p] = "replace"]
    /\ UNCHANGED <<secrets, env, ss, clock, ticks, issued, now, base_rt,
                   new_tok, result, calls, reqs, writes, pre, raw, refreshed_at,
                   rotated>>

\* Mutant of Replace: the call returns the new token without the rename.
ReturnWithoutReplace(p) ==
    /\ pc[p] = "replace"
    /\ result' = [result EXCEPT ![p] = Return(new_tok[p]["access_token"])]
    /\ pc' = [pc EXCEPT ![p] = "done"]
    /\ UNCHANGED <<secrets, env, file, tmp, ss, clock, ticks, issued, now, base_rt,
                   new_tok, calls, reqs, writes, pre, raw, refreshed_at, fh, rotated>>

\* Where an open file lies after os.replace(tmp, TOKENS_PATH).
Renamed(h) ==
    CASE h = "tmp" -> "path"
      [] h = "path" -> "unlinked"
      [] OTHER -> h

\* _save_tokens_file, line 65: os.replace(tmp, TOKENS_PATH), and the return.
Replace(p) ==
    /\ pc[p] = "replace"
    /\ IF tmp.state = "absent"
       THEN /\ result' = [result EXCEPT ![p] = Raise("FileNotFoundError", "TMP_PATH")]
            /\ UNCHANGED <<file, tmp, writes, fh>>
       ELSE /\ file' = tmp
            /\ tmp' = AbsentFile
            /\ fh' = [q \in Procs |-> Renamed(fh[q])]
            /\ writes' = [writes EXCEPT ![p] = @ + 1]
            /\ result' = [result EXCEPT ![p] = Return(new_tok[p]["access_token"])]
    /\ pc' = [pc EXCEPT ![p] = "done"]
    /\ UNCHANGED <<secrets, env, ss, clock, ticks, issued, now, base_rt, new_tok,
                   calls, reqs, pre, raw, refreshed_at, rotated>>

\* The process is killed inside _save_tokens_file; its open file is closed.
Crash(p) ==
    /\ pc[p] \in {"open_tmp", "dump", "replace"}
    /\ pc' = [pc EXCEPT ![p] = "crashed"]
    /\ fh' = [fh EXCEPT ![p] = "none"]
    /\ UNCHANGED <<secrets, env, file, tmp, ss, clock, ticks, issued, now, base_rt,
                   new_tok, result, calls, reqs, writes, pre, raw, refreshed_at,
                   rotated>>

\* Time passes.  The clock is read on lines 92 and 98 only, so it moves only
\* while a process has one of these reads ahead of it.
Tick ==
    /\ ticks < MaxTicks
    /\ \E p \in Procs :
          \/ pc[p] = "post"
          \/ pc[p] \in {"idle", "done", "crashed"} /\ calls[p] < MaxCalls
    /\ \E d \in TickSteps : clock' = clock + d
    /\ ticks' = ticks + 1
    /\ UNCHANGED <<secrets, env, file, tmp, ss, issued, pc, now, base_rt,
                   new_tok, result, calls, reqs, writes, pre, raw, refreshed_at,
                   fh, rotated>>

\* ------------------------------------------------------------ initial states
DictsOver(keys, val) ==
    { [k \in K |-> val[k]] : K \in SUBSET keys }

SecretsInits ==
    DictsOver({"XERO_CLIENT_ID", "XERO_CLIENT_SECRET", "XERO_REFRESH_TOKEN"},
              [XERO_CLIENT_ID |-> "cid", XERO_CLIENT_SECRET |-> "csecret",
               XERO_REFRESH_TOKEN |-> "RB"])

EnvInits ==
    DictsOver({"XERO_CLIENT_ID", "XERO_CLIENT_SECRET", "XERO_REFRESH_TOKEN"},
              [XERO_CLIENT_ID |-> "cid", XERO_CLIENT_SECRET |-> "csecret",
               XERO_REFRESH_TOKEN |-> "RE"])

\* app.py lines 39-43: os.environ.setdefault(key, get_secret(key, "") or "").
MirroredEnv(s) ==
    [k \in {"XERO_CLIENT_ID", "XERO_CLIENT_SECRET", "XERO_REFRESH_TOKEN"} |->
        Get(s, k, "")]

\* xero_tokens.json as the code-exchange step (or a hand edit) left it.
FileInits ==
    {AbsentFile} \cup
    { JsonFile([k \in K |-> CASE k = "access_token" -> "A0"
                              [] k = "refresh_token" -> "R0"
                              [] k = "expires_at" -> e]) :
        K \in { {"access_token", "refresh_token", "expires_at"},
                {"access_token", "refresh_token"},
                {"access_token", "expires_at"} },
        e \in {StartClock - 100, StartClock + ExpiryGuard, StartClock + ExpiryGuard + 1} }

InitCommon ==
    /\ secrets \in SecretsInits
    /\ env \in (IF InCloudMode THEN {MirroredEnv(secrets)} ELSE EnvInits)
    /\ file \in (IF InCloudMode THEN {AbsentFile} ELSE FileInits)
    /\ tmp = AbsentFile
    /\ ss = EmptyDict
    /\ clock = StartClock
    /\ ticks = 0
    /\ issued = 0
    /\ now = [p \in Procs |-> 0]
    /\ base_rt = [p \in Procs |-> ""]
    /\ new_tok = [p \in Procs |-> EmptyDict]
    /\ result = [p \in Procs |-> NoResult]
    /\ calls = [p \in Procs |-> 0]
    /\ reqs = [p \in Procs |-> 0]
    /\ writes = [p \in Procs |-> 0]
    /\ pre = [p \in Procs |-> AbsentFile]
    /\ raw = [p \in Procs |-> NoResponse]
    /\ refreshed_at = [p \in Procs |-> 0]
    /\ fh = [p \in Procs |-> "none"]
    /\ rotated = FALSE

Init ==
    /\ InitCommon
    /\ pc = [p \in Procs |-> IF p = 1 THEN "idle" ELSE "off"]

Next ==
    \/ \E p \in Procs : Call(p)
    \/ \E p \in Procs : Respond(p)
    \/ \E p \in Procs : OpenTmp(p)
    \/ \E p \in Procs : Dump(p)
    \/ \E p \in Procs : Replace(p)
    \/ \E p \in Procs : Crash(p)
    \/ Tick

Spec == Init /\ [][Next]_vars

\* ------------------------------------------------- two processes, one file
\* Local file mode with the client configured and a complete pair on disk that
\* has expired: both processes run ensure_access_token once, in any interleaving
\* of their steps.
InitConc ==
    /\ InitCommon
    /\ secrets = EmptyDict
    /\ env = [XERO_CLIENT_ID |-> "cid", XERO_CLIENT_SECRET |-> "csecret"]
    /\ file = JsonFile([access_token |-> "A0", refresh_token |-> "R0",
                        expires_at |-> StartClock - 100])
    /\ pc = [p \in Procs |-> "idle"]

FirstCall(p) == CallUpTo(p, 1)

NextConc ==
    \/ \E p \in Procs : FirstCall(p)
    \/ \E p \in Procs : Respond(p)
    \/ \E p \in Procs : OpenTmp(p)
    \/ \E p \in Procs : Dump(p)
    \/ \E p \in Procs : Replace(p)

SpecConc == InitConc /\ [][NextConc]_vars

\* ------------------------------------------------------ one Cloud session
\* Cloud mode with client id, client secret and baseline refresh token in the
\* secrets: one session calls ensure_access_token up to MaxCalls + 1 times.
InitSession ==
    /\ Init
    /\ DOMAIN secrets = {"XERO_CLIENT_ID", "XERO_CLIENT_SECRET", "XERO_REFRESH_TOKEN"}

SessionCall(p) == CallUpTo(p, MaxCalls + 1)

NextSession ==
    \/ \E p \in Procs : SessionCall(p)
    \/ \E p \in Procs : Respond(p)

SpecSession == InitSession /\ [][NextSession]_vars

\* =================================================================== claims
\* Process p has called ensure_access_token at least once; pre[p], now[p],
\* reqs[p], writes[p] and raw[p] then describe its latest call.
Started(p) == calls[p] > 0

\* The latest call of p has returned or raised.
Ended(p) == Started(p) /\ pc[p] = "done"

\* The latest call of p found a stored pair whose expiry lies beyond the guard.
FoundFresh(p) ==
    /\ Started(p)
    /\ pre[p].state = "json"
    /\ {"access_token", "expires_at"} \subseteq DOMAIN pre[p].data
    /\ pre[p].data["expires_at"] > now[p] + 30

\* The latest call of p found a complete stored pair that is about to expire.
FoundStale(p) ==
    /\ Started(p)
    /\ pre[p].state = "json"
    /\ {"access_token", "refresh_token", "expires_at"} \subseteq DOMAIN pre[p].data
    /\ pre[p].data["expires_at"] <= now[p] + 30

\* The latest call of p refreshed and returned the new access token.
Refreshed(p) ==
    /\ Ended(p)
    /\ result[p].kind = "return"
    /\ raw[p].kind = "http"

\* C1: a call that finds a stored pair with expires_at > now + 30, in the file
\* or in the session, returns the stored access_token at once, sends no
\* request to the token endpoint, writes nothing and leaves the pair as it was.
C1_FreshPairIsReturnedUntouched ==
    \A p \in Procs :
        FoundFresh(p) =>
            /\ pc[p] = "done"
            /\ result[p] = Return(pre[p].data["access_token"])
            /\ reqs[p] = 0
            /\ writes[p] = 0
            /\ raw[p] = NoResponse
            /\ Store = pre[p]

\* A file-mode call has returned the token of a pair that was one second
\* inside the guard.
C1_Witness ==
    /\ ~InCloudMode
    /\ FoundFresh(1)
    /\ pre[1].data["expires_at"] = now[1] + 31
    /\ result[1] = Return("A0")

\* The call gets as far as requests.post: the client credentials are set and,
\* in Cloud mode, the cached or the baseline refresh token is non-empty.
CanRefresh(p) ==
    /\ Truthy(ClientId)
    /\ Truthy(ClientSecret)
    /\ InCloudMode =>
          Truthy(Or(Get(pre[p].data, "refresh_token", None),
                    Get(secrets, "XERO_REFRESH_TOKEN", "")))

\* What a successful refresh persists: expires_at is the clock read at the
\* refresh plus the declared lifetime (1800 when the response declares none)
\* minus 60.
PersistedExpiry(p) ==
    Refreshed(p) =>
        /\ Store.state = "json"
        /\ Store.data["expires_at"] =
              refreshed_at[p]
              + (IF Has(raw[p].body, "expires_in") THEN raw[p].body["expires_in"] ELSE 1800)
              - 60

\* C2 as stated: a call that finds a stored pair with expires_at <= now + 30
\* sends exactly one refresh request, and on success persists
\* expires_at = now_at_refresh + expires_in - 60.
C2_StalePairAlwaysOneRequest ==
    \A p \in Procs :
        FoundStale(p) => reqs[p] = 1 /\ PersistedExpiry(p)

\* C2 as amended: such a call sends at most one refresh request, exactly one
\* when the client credentials are configured and a refresh token is at hand,
\* and on success it persists expires_at = now_at_refresh + expires_in - 60.
C2_StalePairOneRequestWhenConfigured ==
    \A p \in Procs :
        FoundStale(p) =>
            /\ reqs[p] <= 1
            /\ CanRefresh(p) => reqs[p] = 1
            /\ PersistedExpiry(p)

\* A stale pair was refreshed by a response without expires_in, while the
\* clock moved between the call and the refresh.
C2_Witness ==
    /\ FoundStale(1)
    /\ Refreshed(1)
    /\ reqs[1] = 1
    /\ ~Has(raw[1].body, "expires_in")
    /\ refreshed_at[1] > now[1]
    /\ Store.data["expires_at"] = refreshed_at[1] + 1740

\* C3: when a successful refresh response has no refresh_token, the persisted
\* pair keeps the refresh_token that was sent with the request (the stored
\* one, when the store held a non-empty one) and takes the response's
\* access_token.
C3_OmittedRefreshTokenIsRetained ==
    \A p \in Procs :
        (Refreshed(p) /\ ~Has(raw[p].body, "refresh_token")) =>
            /\ Store.state = "json"
            /\ Store.data["refresh_token"] = base_rt[p]
            /\ Store.data["access_token"] = raw[p].body["access_token"]
            /\ result[p] = Return(raw[p].body["access_token"])
            /\ (pre[p].state = "json" /\ Truthy(Get(pre[p].data, "refresh_token", None)))
                  => Store.data["refresh_token"] = pre[p].data["refresh_token"]

\* Scenario B: the file held an expired pair with refresh_token R0, the
\* response had no refresh_token, and the file now holds A1 with R0.
C3_Witness ==
    /\ ~InCloudMode
    /\ FoundStale(1)
    /\ Refreshed(1)
    /\ pre[1].data["expires_at"] = now[1] - 100
    /\ ~Has(raw[1].body, "refresh_token")
    /\ file.data["refresh_token"] = "R0"
    /\ file.data["access_token"] = "A1"
    /\ result[1] = Return("A1")

\* The store holds a pair with a non-empty refresh_token.
HasRefreshToken(store) ==
    store.state = "json" /\ Truthy(Get(store.data, "refresh_token", None))

\* C4: once the stored pair has a non-empty refresh_token, no call and no
\* success response (refresh_token absent, rotated, empty or null) makes the
\* stored refresh_token empty.
C4_RefreshTokenNeverBecomesEmpty ==
    [][HasRefreshToken(Store) => HasRefreshToken(Store')]_vars

\* C5: in file mode the new pair goes to the temporary file first and reaches
\* the token file by the rename alone: while a call is under way, or was
\* killed, the token file is what the call found; at every step it is that
\* complete old pair or the complete new pair, never a partial write.
C5_TokenFileIsOldOrNewPair ==
    ~InCloudMode =>
        \A p \in Procs :
            Started(p) =>
                /\ file.state # "torn"
                /\ pc[p] \in {"post", "open_tmp", "dump", "replace", "crashed"}
                      => file = pre[p]
                /\ \/ file = pre[p]
                   \/ new_tok[p] # EmptyDict /\ file = JsonFile(new_tok[p])
                /\ pc[p] = "replace" => tmp = JsonFile(new_tok[p])
                /\ Refreshed(p) => file = JsonFile(new_tok[p]) /\ tmp = AbsentFile

\* The process was killed between json.dump and os.replace: the temporary
\* file holds the new pair, the token file still the old one.
C5_Witness ==
    /\ ~InCloudMode
    /\ pc[1] = "crashed"
    /\ tmp = JsonFile(new_tok[1])
    /\ file = pre[1]
    /\ file.state = "json"
    /\ file.data["access_token"] # new_tok[1]["access_token"]

\* C6: a refresh answered with a non-success status ends the call with the
\* "Token refresh failed" RuntimeError carrying that status, after the one
\* request and no other, with the stored pair as the call found it.
C6_RejectedRefreshRaisesAndKeepsPair ==
    \A p \in Procs :
        (Started(p) /\ raw[p].kind = "http" /\ raw[p].status >= 400) =>
            /\ pc[p] = "done"
            /\ result[p] = RaiseStatus("RuntimeError", "Token refresh failed", raw[p].status)
            /\ reqs[p] = 1
            /\ writes[p] = 0
            /\ Store = pre[p]

\* Scenario C: HTTP 400 on the refresh of an expired pair in the file.
C6_Witness ==
    /\ ~InCloudMode
    /\ FoundStale(1)
    /\ raw[1].status = 400
    /\ result[1].kind = "RuntimeError"
    /\ result[1].status = 400
    /\ file = pre[1]

\* C7: a refresh request that times out or fails in transport ends the call
\* with the transport's exception and without a write: the store, file or
\* session, is as the call found it.
C7_TimeoutRaisesAndWritesNothing ==
    \A p \in Procs :
        (Started(p) /\ raw[p].kind = "timeout") =>
            /\ pc[p] = "done"
            /\ result[p].kind = "RequestException"
            /\ reqs[p] = 1
            /\ writes[p] = 0
            /\ Store = pre[p]

\* A second call in Cloud mode timed out with a pair cached by the first.
C7_Witness ==
    /\ InCloudMode
    /\ calls[1] = 2
    /\ raw[1].kind = "timeout"
    /\ result[1].kind = "RequestException"
    /\ ss # EmptyDict
    /\ JsonFile(ss) = pre[1]

\* No baseline refresh token is configured, in the secrets or the environment.
NoBaseline ==
    /\ ~Truthy(Get(secrets, "XERO_REFRESH_TOKEN", ""))
    /\ ~Truthy(Get(env, "XERO_REFRESH_TOKEN", ""))

\* C8: with no pair in the active backend and no baseline refresh token, the
\* call raises FileNotFoundError naming the source it expected (the token
\* file's path, or the XERO_REFRESH_TOKEN secret), sends no request and
\* writes nothing.
C8_NoPairNoBaselineRaisesCredentialsMissing ==
    \A p \in Procs :
        (Started(p) /\ pre[p].state = "absent" /\ NoBaseline) =>
            /\ pc[p] = "done"
            /\ result[p] = Raise("FileNotFoundError",
                                 IF InCloudMode THEN "XERO_REFRESH_TOKEN" ELSE "TOKENS_PATH")
            /\ reqs[p] = 0
            /\ writes[p] = 0
            /\ raw[p] = NoResponse
            /\ Store = pre[p]

\* Cloud mode with client id and secret but no refresh token: the call raised.
C8_Witness ==
    /\ InCloudMode
    /\ Truthy(ClientId)
    /\ Truthy(ClientSecret)
    /\ Ended(1)
    /\ pre[1].state = "absent"
    /\ NoBaseline
    /\ result[1].kind = "FileNotFoundError"

\* The latest call of p had to refresh: it found no fresh pair, and a refresh
\* token to send (the stored one; in Cloud mode the cached or the baseline one).
RefreshNeeded(p) ==
    /\ Started(p)
    /\ ~FoundFresh(p)
    /\ IF InCloudMode
       THEN Truthy(Or(Get(pre[p].data, "refresh_token", None),
                      Get(secrets, "XERO_REFRESH_TOKEN", "")))
       ELSE pre[p].state = "json"
            /\ {"access_token", "refresh_token"} \subseteq DOMAIN pre[p].data

\* C9: when a refresh is needed and the client id or the client secret is
\* missing, the call raises the "Missing XERO_CLIENT_ID / XERO_CLIENT_SECRET"
\* RuntimeError before any request is sent, and the stored pair is unchanged.
C9_MissingClientCredentialsFailFast ==
    \A p \in Procs :
        (RefreshNeeded(p) /\ (~Truthy(ClientId) \/ ~Truthy(ClientSecret))) =>
            /\ pc[p] = "done"
            /\ result[p] = Raise("RuntimeError", "Missing XERO_CLIENT_ID / XERO_CLIENT_SECRET.")
            /\ reqs[p] = 0
            /\ writes[p] = 0
            /\ raw[p] = NoResponse
            /\ issued = 0
            /\ Store = pre[p]

\* The client id is set and the secret is not; an expired pair was found.
C9_Witness ==
    /\ FoundStale(1)
    /\ Truthy(ClientId)
    /\ ~Truthy(ClientSecret)
    /\ result[1].kind = "RuntimeError"
    /\ result[1].status = 0

\* C10, the first call: in Cloud mode with no cached pair and a baseline
\* refresh token, the call that obtains a pair has sent exactly one request,
\* with the baseline token, and has cached the pair it returns the token of.
C10_FirstCallCaches ==
    \A p \in Procs :
        (InCloudMode /\ Refreshed(p) /\ pre[p].state = "absent") =>
            /\ reqs[p] = 1
            /\ base_rt[p] = secrets["XERO_REFRESH_TOKEN"]
            /\ ss # EmptyDict
            /\ ss["access_token"] = raw[p].body["access_token"]
            /\ result[p] = Return(ss["access_token"])

\* C10, the second call: a call made after one that returned a token, while
\* the cached pair's expires_at > now + 30, sends no request, leaves the cache
\* alone and returns the same token.
C10_SecondCallStep(p) ==
    (/\ InCloudMode
     /\ calls'[p] = calls[p] + 1
     /\ pc[p] = "done"
     /\ result[p].kind = "return"
     /\ Has(ss, "expires_at")
     /\ ss["expires_at"] > clock + 30)
    => /\ pc'[p] = "done"
       /\ result'[p] = result[p]
       /\ reqs'[p] = 0
       /\ issued' = issued
       /\ ss' = ss

\* C10: in Cloud mode, starting with no cached pair and a baseline refresh
\* token, the first call sends exactly one refresh request and caches the pair
\* it obtains, and a call made while the cached pair's expires_at > now + 30
\* sends no further request and returns the same access token.
C10_SessionCachesFirstRefresh ==
    /\ []C10_FirstCallCaches
    /\ [][\A p \in Procs : C10_SecondCallStep(p)]_vars

\* The first call refreshed with the baseline token, the second returned the
\* cached token without a request.
C10_Witness ==
    /\ InCloudMode
    /\ calls[1] = 2
    /\ Ended(1)
    /\ issued = 1
    /\ reqs[1] = 0
    /\ ss["refresh_token"] = "RB"
    /\ result[1] = Return("A1")

\* C11: a success-status refresh response without an access_token ends the
\* call with the error class of a rejected refresh (the "Token refresh failed"
\* RuntimeError), and the stored pair is as the call found it.
C11_MalformedSuccessIsUpstreamAuthError ==
    \A p \in Procs :
        (/\ Started(p)
         /\ raw[p].kind = "http"
         /\ raw[p].status < 400
         /\ ~Has(raw[p].body, "access_token"))
        => /\ pc[p] = "done"
           /\ result[p].kind = "RuntimeError"
           /\ result[p].value = "Token refresh failed"
           /\ Store = pre[p]

\* One whole uninterrupted call as a function of what it found: the outcome of
\* the start, then, when a request was sent, the answer resp read at time t.
WholeCall(start, store, resp, t) ==
    IF start.pc = "done"
    THEN [result |-> start.result, reqs |-> 0, store |-> store]
    ELSE LET o == RefreshResult(resp, start.rt, t) IN
         IF o.ok
         THEN [result |-> Return(o.tokens["access_token"]), reqs |-> 1,
               store |-> JsonFile(o.tokens)]
         ELSE [result |-> o.result, reqs |-> 1, store |-> store]

\* Two calls end alike: the same returned token or the same error class and
\* status, the same number of requests, the same stored pair.
SameOutcome(a, b) ==
    /\ a.result.kind = b.result.kind
    /\ a.result.kind = "return" => a.result.value = b.result.value
    /\ a.result.status = b.result.status
    /\ a.reqs = b.reqs
    /\ a.store = b.store

\* C12: the file backend and the session backend behave alike: on the stored
\* pair, the configuration and the clock of any state of a session, and for
\* every answer of the provider, the session code and the file code end with
\* the same outcome, the same number of requests and the same stored pair.
C12_BackendsBehaveAlike ==
    InCloudMode =>
        \A resp \in Responses(issued + 1) :
            SameOutcome(WholeCall(CloudStart(ss, clock), Store, resp, clock),
                        WholeCall(FileStart(Store, clock), Store, resp, clock))

\* C13: a call that returns a freshly obtained access token has persisted the
\* new pair first: when it has returned, the pair in the active backend is the
\* one built from the response, and its access_token is the returned token.
C13_RefreshedPairIsPersistedBeforeReturn ==
    \A p \in Procs :
        Refreshed(p) =>
            /\ writes[p] >= 1
            /\ Store.state = "json"
            /\ Store.data["access_token"] = result[p].value
            /\ Store.data = NewTokens(raw[p].body, base_rt[p], refreshed_at[p])

\* The second refresh of a file-mode process has returned A2, and the token
\* file holds A2.
C13_Witness ==
    /\ ~InCloudMode
    /\ calls[1] = 2
    /\ Refreshed(1)
    /\ result[1] = Return("A2")
    /\ file.data["access_token"] = "A2"

\* The step in which a call of p returns an access token.
ReturnsToken(p) ==
    /\ pc'[p] = "done"
    /\ result'[p].kind = "return"
    /\ pc[p] # "done" \/ calls'[p] # calls[p]

\* C15: at the moment a call returns an access token, the stored pair that
\* holds the token has expires_at > now, whatever lifetime the provider
\* declared (60 seconds or less included).
C15_ReturnedTokenIsNotExpired ==
    [][\A p \in Procs :
          ReturnsToken(p) =>
              /\ Store'.state = "json"
              /\ Store'.data["access_token"] = result'[p].value
              /\ Get(Store'.data, "expires_at", 0) > clock']_vars

\* C14: while two processes that share the token file refresh at the same
\* time, the file always holds one complete pair, the old one or the new one of
\* either process, and neither process fails in the persist step.
C14_ConcurrentRefreshesKeepTheFileWhole ==
    /\ file.state = "json"
    /\ \/ file.data = [access_token |-> "A0", refresh_token |-> "R0",
                       expires_at |-> StartClock - 100]
       \/ \E p \in Procs : file.data = new_tok[p]
    /\ \A p \in Procs : result[p] # Raise("FileNotFoundError", "TMP_PATH")

\* C16: in the session backend, once a refresh has returned a rotated
\* refresh_token, every later refresh of the session sends a token the
\* provider issued, never the baseline of the secrets.
C16_RotatedTokenSupersedesBaseline ==
    \A p \in Procs :
        (InCloudMode /\ rotated /\ pc[p] = "post")
            => base_rt[p] # BaselineRefreshToken

====
